---- MODULE Spec2Model ----
(***************************************************************************)
(* Model of the server-side handlers of the storefront: the MoonPay        *)
(* signature endpoint and the Jupiter Ultra order / execute proxies, in    *)
(* their dev-server (vite middleware) and standalone (function handler)    *)
(* forms.                                                                  *)
(*                                                                         *)
(* A JavaScript string is a sequence of tokens (each token a TLA+ string); *)
(* '' is <<>>, concatenation is \o.  A JavaScript value is a record tagged *)
(* by its typeof-kind in field t.                                          *)
(***************************************************************************)
EXTENDS Integers, Sequences, FiniteSets, TLC

\* Number of repeated query parameters a client appends to an order query.
MaxDup == 2

\* ------------------------------------------------------------------------
\* JavaScript values
\* ------------------------------------------------------------------------
Undefined == [t |-> "undefined"]
Null == [t |-> "null"]
Num == [t |-> "number"]
JStr(s) == [t |-> "string", s |-> s]
JArr(a) == [t |-> "array", a |-> a]
JObj(m) == [t |-> "object", m |-> m]

\* Truthiness as used by `!x`, `x && ...`, `x || y` (the number is non-zero).
Truthy(v) ==
  CASE v.t = "string" -> Len(v.s) > 0
    [] v.t \in {"object", "array", "number"} -> TRUE
    [] OTHER -> FALSE

\* A successful evaluation, and a thrown Error with its message.
Ok(v) == [ok |-> TRUE, v |-> v]
Throw(message) == [ok |-> FALSE, message |-> message]

\* o[k] on a plain object: the last member with that key, else undefined.
RECURSIVE Member(_, _)
Member(m, k) ==
  IF m = <<>> THEN Undefined
  ELSE IF m[Len(m)].k = k THEN m[Len(m)].v
  ELSE Member(SubSeq(m, 1, Len(m) - 1), k)

\* body.k as the engine evaluates it: a TypeError on null/undefined, the
\* member on an object, undefined on the other primitives.
Prop(v, k) ==
  CASE v.t \in {"null", "undefined"} ->
         Throw(<<"Cannot read properties of ", v.t, " (reading '", k, "')">>)
    [] v.t = "object" -> Ok(Member(v.m, k))
    [] OTHER -> Ok(Undefined)

\* `typeof x === 'string' ? x : undefined`
StringOrUndefined(v) == IF v.t = "string" THEN v ELSE Undefined

\* s contains sub as a contiguous substring (sub non-empty).
Contains(s, sub) ==
  /\ Len(sub) > 0
  /\ \E i \in 0..(Len(s) - Len(sub)) : SubSeq(s, i + 1, i + Len(sub)) = sub

RECURSIVE Join(_, _)
Join(parts, sep) ==
  IF parts = <<>> THEN <<>>
  ELSE IF Len(parts) = 1 THEN parts[1]
  ELSE parts[1] \o sep \o Join(Tail(parts), sep)

\* Position of the first occurrence of token tok in s, 0 when absent.
IndexOf(s, tok) ==
  IF \E i \in 1..Len(s) : s[i] = tok
  THEN CHOOSE i \in 1..Len(s) : s[i] = tok /\ \A j \in 1..(i - 1) : s[j] # tok
  ELSE 0

\* ------------------------------------------------------------------------
\* JSON text: tokens { } , : " null 7 and content tokens
\* ------------------------------------------------------------------------
QUOTE == "\""

\* JSON.stringify of a string, a number, null.
StringifyValue(v) ==
  CASE v.t = "string" -> <<QUOTE>> \o v.s \o <<QUOTE>>
    [] v.t = "number" -> <<"7">>
    [] OTHER -> <<"null">>

RECURSIVE StringifyMembers(_)
StringifyMembers(m) ==
  IF m = <<>> THEN <<>>
  ELSE (IF Len(m) > 1 THEN StringifyMembers(SubSeq(m, 1, Len(m) - 1)) \o <<",">>
        ELSE <<>>)
       \o <<QUOTE, m[Len(m)].k, QUOTE, ":">> \o StringifyValue(m[Len(m)].v)

\* JSON.stringify of a plain object given as its member list.
JSONstringify(m) == <<"{">> \o StringifyMembers(m) \o <<"}">>

\* Parses one JSON value at the head of toks: [ok, v, rest].
ParseValue(toks) ==
  IF toks = <<>> THEN [ok |-> FALSE, v |-> Undefined, rest |-> <<>>]
  ELSE IF toks[1] = "null" THEN [ok |-> TRUE, v |-> Null, rest |-> Tail(toks)]
  ELSE IF toks[1] = "7" THEN [ok |-> TRUE, v |-> Num, rest |-> Tail(toks)]
  ELSE IF toks[1] = QUOTE /\ IndexOf(Tail(toks), QUOTE) > 0
       THEN LET close == IndexOf(Tail(toks), QUOTE) IN
            [ok |-> TRUE, v |-> JStr(SubSeq(toks, 2, close)),
             rest |-> SubSeq(toks, close + 2, Len(toks))]
  ELSE [ok |-> FALSE, v |-> Undefined, rest |-> <<>>]

\* Parses the comma-separated members between the braces: [ok, m].
RECURSIVE ParseMembers(_)
ParseMembers(toks) ==
  IF Len(toks) < 5 \/ toks[1] # QUOTE \/ toks[3] # QUOTE \/ toks[4] # ":"
  THEN [ok |-> FALSE, m |-> <<>>]
  ELSE LET val == ParseValue(SubSeq(toks, 5, Len(toks))) IN
       IF ~val.ok THEN [ok |-> FALSE, m |-> <<>>]
       ELSE IF val.rest = <<>>
            THEN [ok |-> TRUE, m |-> <<[k |-> toks[2], v |-> val.v]>>]
       ELSE IF val.rest[1] # "," THEN [ok |-> FALSE, m |-> <<>>]
       ELSE LET more == ParseMembers(Tail(val.rest)) IN
            IF ~more.ok THEN more
            ELSE [ok |-> TRUE, m |-> <<[k |-> toks[2], v |-> val.v]>> \o more.m]

\* JSON.parse(text): the value, or a SyntaxError.
JSONparse(text) ==
  IF text = <<>> THEN Throw(<<"Unexpected end of JSON input">>)
  ELSE IF text[1] = "{"
       THEN IF Len(text) < 2 \/ text[Len(text)] # "}"
            THEN Throw(<<"Unexpected end of JSON input">>)
            ELSE IF Len(text) = 2 THEN Ok(JObj(<<>>))
            ELSE LET p == ParseMembers(SubSeq(text, 2, Len(text) - 1)) IN
                 IF p.ok THEN Ok(JObj(p.m))
                 ELSE Throw(<<"Unexpected token in JSON">>)
  ELSE LET val == ParseValue(text) IN
       IF val.ok /\ val.rest = <<>> THEN Ok(val.v)
       ELSE Throw(<<"Unexpected token in JSON">>)

\* ------------------------------------------------------------------------
\* URLs: tokens scheme: // host /path ? name = value & # fragment
\* ------------------------------------------------------------------------
Schemes == {"https:", "http:"}
Delims == {"//", "?", "#", "&", "="}

\* The serializer percent-encodes a space of the query.
EncodeQueryToken(tok) == IF tok = " " THEN "%20" ELSE tok

\* The query component with its leading '?', up to the fragment; '' when the
\* url has no query or an empty one (URL.prototype.search).
URLsearch(url) ==
  LET hash == IndexOf(url, "#")
      upto == IF hash = 0 THEN Len(url) ELSE hash - 1
      q == IndexOf(SubSeq(url, 1, upto), "?")
  IN IF q = 0 \/ q = upto THEN <<>>
     ELSE [i \in 1..(upto - q + 1) |-> EncodeQueryToken(url[q + i - 1])]

\* new URL(url): an absolute url parses, anything else throws a TypeError.
NewURL(url) ==
  IF Len(url) >= 3 /\ url[1] \in Schemes /\ url[2] = "//" /\ url[3] \notin Delims
  THEN Ok([search |-> URLsearch(url)])
  ELSE Throw(<<"Invalid URL">>)

\* new URL(url, 'http://localhost'): a path-relative request url always parses.
NewURLWithBase(url) == [search |-> URLsearch(url)]

\* Splits tokens at every separator token: a sequence of segments.
RECURSIVE Split(_, _)
Split(s, sep) ==
  LET i == IndexOf(s, sep) IN
  IF i = 0 THEN <<s>>
  ELSE <<SubSeq(s, 1, i - 1)>> \o Split(SubSeq(s, i + 1, Len(s)), sep)

\* One name=value segment of a query as a pair; a name alone has value ''.
PairOf(seg) ==
  LET e == IndexOf(seg, "=") IN
  IF e = 0 THEN [k |-> seg, v |-> <<>>]
  ELSE [k |-> SubSeq(seg, 1, e - 1), v |-> SubSeq(seg, e + 1, Len(seg))]

RECURSIVE PairsOf(_)
PairsOf(segs) ==
  IF segs = <<>> THEN <<>>
  ELSE (IF Head(segs) = <<>> THEN <<>> ELSE <<PairOf(Head(segs))>>)
       \o PairsOf(Tail(segs))

\* url.searchParams: the list of name/value pairs of a search string.
SearchParams(search) ==
  IF search = <<>> THEN <<>> ELSE PairsOf(Split(Tail(search), "&"))

\* searchParams.get(name): the first value with that name, else null.
SearchParamsGet(pairs, name) ==
  IF \E i \in 1..Len(pairs) : pairs[i].k = <<name>>
  THEN JStr(pairs[CHOOSE i \in 1..Len(pairs) :
                    /\ pairs[i].k = <<name>>
                    /\ \A j \in 1..(i - 1) : pairs[j].k # <<name>>].v)
  ELSE Null

\* ------------------------------------------------------------------------
\* Configuration and the keyed digest
\* ------------------------------------------------------------------------
JUPITER_ULTRA_BASE_URL == "https://api.jup.ag/ultra/v1"

\* env.JUPITER_ULTRA_API_KEY ?? env.VITE_JUPITER_ULTRA_API_KEY
ApiKeys == {Undefined, JStr(<<"jup-key">>)}
\* env.MOONPAY_SECRET_KEY ?? env.VITE_MOONPAY_SECRET_KEY
Secrets == {Undefined, JStr(<<"sk-1">>), JStr(<<"sk-2">>)}

\* Tokens a signed query string or a secret is made of.
DigestAlphabet ==
  <<"?", "&", "=", "a=1", "b=2", "a=", "%20", "/", "sk-1", "sk-2">>

RECURSIVE Code(_)
Code(s) ==
  IF s = <<>> THEN 0
  ELSE Code(SubSeq(s, 1, Len(s) - 1)) * (Len(DigestAlphabet) + 1)
       + IndexOf(DigestAlphabet, s[Len(s)])

\* createHmac('sha256', key).update(msg).digest('base64'): one opaque token.
\* The digest is idealised as collision-free on the strings of the model.
Hmac(key, msg) ==
  <<"b64:" \o ToString(Len(key)) \o "." \o ToString(Code(key))
     \o "." \o ToString(Len(msg)) \o "." \o ToString(Code(msg))>>

\* ------------------------------------------------------------------------
\* Responses
\* ------------------------------------------------------------------------
NoHeaders == [h \in {} |-> <<>>]
FreshResponse == [sent |-> 0, status |-> 200, headers |-> NoHeaders, body |-> <<>>]

SetStatus(res, status) == [res EXCEPT !.status = status]
SetHeader(res, name, value) == [res EXCEPT !.headers = (name :> value) @@ @]
End(res, body) == [res EXCEPT !.sent = @ + 1, !.body = body]

ErrorPayload(message) == <<[k |-> "error", v |-> JStr(message)]>>

\* sendJson(res, status, payload) of the dev server.
sendJson(res, status, payload) ==
  End(SetHeader(SetStatus(res, status), "Content-Type", <<"application/json">>),
      JSONstringify(payload))

\* res.status(status).json(payload) of the function platform.
StatusJson(res, status, payload) ==
  End(SetHeader(SetStatus(res, status), "Content-Type",
                <<"application/json; charset=utf-8">>),
      JSONstringify(payload))

\* A variant that answers with the fixed text whatever was thrown.
CatchMessageFallbackOnly(err, fallback) == fallback

\* `error instanceof Error ? error.message : fallback`
CatchMessage(err, fallback) == IF "message" \in DOMAIN err THEN err.message ELSE fallback

\* The result of a handler segment: the response so far, where the handler
\* stands (done, or suspended on the body or on the upstream), the upstream
\* requests it issued and the parts of the request it looked at.
Outcome(res, pc, up, touched) ==
  [res |-> res, pc |-> pc, up |-> up, touched |-> touched]

\* forwardJupiterResponse / forwardResponse: relays an upstream response.
forwardJupiterResponse(up, res) ==
  LET body == up.body
      contentType == IF up.ctype.t = "null" THEN <<"application/json">> ELSE up.ctype.s
  IN End(SetHeader(SetStatus(res, up.status), "Content-Type", contentType),
         IF Len(body) > 0 THEN body ELSE <<"{", "}">>)

\* Variant of forwardResponse that relays an empty upstream body as it is.
forwardResponseNoDefault(up, res) ==
  LET contentType == IF up.ctype.t = "null" THEN <<"application/json">> ELSE up.ctype.s
  IN End(SetHeader(SetStatus(res, up.status), "Content-Type", contentType), up.body)

forwardResponse(up, res) ==
  LET body == up.body
      contentType == IF up.ctype.t = "null" THEN <<"application/json">> ELSE up.ctype.s
  IN End(SetHeader(SetStatus(res, up.status), "Content-Type", contentType),
         IF Len(body) > 0 THEN body ELSE <<"{", "}">>)

\* readBody's 'end' listener: the parsed text, {} for an empty one.
readBody(data) == IF Len(data) > 0 THEN JSONparse(data) ELSE Ok(JObj(<<>>))

\* ------------------------------------------------------------------------
\* /api/sign-moonpay (dev server)
\* ------------------------------------------------------------------------
\* Variant of SignMoonPayBegin that looks at the secret before the method.
SignMoonPayBeginSecretFirst(method, secret, res) ==
  IF ~Truthy(secret)
  THEN Outcome(sendJson(res, 500,
                 ErrorPayload(<<"MoonPay secret key is not configured on the server.">>)),
               "done", <<>>, {})
  ELSE IF method # "POST"
  THEN Outcome(End(SetHeader(SetStatus(res, 405), "Allow", <<"POST">>), <<>>),
               "done", <<>>, {})
  ELSE Outcome(res, "reading", <<>>, {"body"})

\* Up to `await readBody(req)`.
SignMoonPayBegin(method, secret, res) ==
  IF method # "POST"
  THEN Outcome(End(SetHeader(SetStatus(res, 405), "Allow", <<"POST">>), <<>>),
               "done", <<>>, {})
  ELSE IF ~Truthy(secret)
  THEN Outcome(sendJson(res, 500,
                 ErrorPayload(<<"MoonPay secret key is not configured on the server.">>)),
               "done", <<>>, {})
  ELSE Outcome(res, "reading", <<>>, {"body"})

\* The catch clause of the signature handler.
SignMoonPayCatch(err, res) ==
  sendJson(res, 500,
           ErrorPayload(CatchMessage(err, <<"MoonPay signature generation failed.">>)))

\* Variant of SignMoonPayResume that signs the whole url, not its query string.
SignMoonPayResumeWholeUrl(read, secret, res) ==
  IF ~read.ok THEN SignMoonPayCatch(read, res)
  ELSE LET field == Prop(read.v, "url") IN
  IF ~field.ok THEN SignMoonPayCatch(field, res)
  ELSE LET url == StringOrUndefined(field.v) IN
  IF ~Truthy(url)
  THEN sendJson(res, 400, ErrorPayload(<<"Missing url in MoonPay signature payload.">>))
  ELSE LET parsed == NewURL(url.s) IN
  IF ~parsed.ok THEN SignMoonPayCatch(parsed, res)
  ELSE sendJson(res, 200, <<[k |-> "signature", v |-> JStr(Hmac(secret.s, url.s))]>>)

\* From the settled readBody promise to the response.
SignMoonPayResume(read, secret, res) ==
  IF ~read.ok THEN SignMoonPayCatch(read, res)
  ELSE LET field == Prop(read.v, "url") IN
  IF ~field.ok THEN SignMoonPayCatch(field, res)
  ELSE LET url == StringOrUndefined(field.v) IN
  IF ~Truthy(url)
  THEN sendJson(res, 400, ErrorPayload(<<"Missing url in MoonPay signature payload.">>))
  ELSE LET parsed == NewURL(url.s) IN
  IF ~parsed.ok THEN SignMoonPayCatch(parsed, res)
  ELSE sendJson(res, 200,
         <<[k |-> "signature", v |-> JStr(Hmac(secret.s, parsed.v.search))]>>)

\* ------------------------------------------------------------------------
\* /api/jupiter/order
\* ------------------------------------------------------------------------
requiredParams == <<"inputMint", "outputMint", "amount", "taker">>

\* ensureApiKey: the 500 sent when no key is configured.
ensureApiKey(res) ==
  sendJson(res, 500, ErrorPayload(
    <<"Jupiter Ultra API key is not configured on the server. Set JUPITER_ULTRA_API_KEY in your env.">>))

\* Variant of UpstreamRequest that also passes the API key in the url.
UpstreamRequestKeyInUrl(method, url, headers, body) ==
  [method |-> method, url |-> url \o <<"&api-key=">> \o headers["x-api-key"],
   headers |-> headers, body |-> body]

UpstreamRequest(method, url, headers, body) ==
  [method |-> method, url |-> url, headers |-> headers, body |-> body]

\* The dev-server order middleware, up to `await fetch(...)`.
OrderMiddleware(method, apiKey, requrl, res) ==
  IF method # "GET"
  THEN Outcome(End(SetHeader(SetStatus(res, 405), "Allow", <<"GET">>), <<>>),
               "done", <<>>, {})
  ELSE IF ~Truthy(apiKey) THEN Outcome(ensureApiKey(res), "done", <<>>, {})
  ELSE LET url == NewURLWithBase(requrl)
           pairs == SearchParams(url.search)
           absent == {i \in 1..Len(requiredParams) :
                        ~Truthy(SearchParamsGet(pairs, requiredParams[i]))}
       IN IF absent # {}
          THEN LET first == CHOOSE i \in absent : \A j \in absent : i <= j IN
               Outcome(sendJson(res, 400, ErrorPayload(
                         <<"Missing required parameter: ", requiredParams[first]>>)),
                       "done", <<>>, {"query"})
          ELSE Outcome(res, "fetching",
                 <<UpstreamRequest("GET",
                     <<JUPITER_ULTRA_BASE_URL, "/order">> \o url.search,
                     "x-api-key" :> apiKey.s, <<>>)>>,
                 {"query"})

\* The filter callback of the standalone order handler.
IsMissing(value) ==
  IF value.t = "array" THEN Len(value.a) = 0 ELSE ~Truthy(value)

\* String(value) for a query value.
String(value) ==
  CASE value.t = "string" -> value.s
    [] value.t = "array" -> Join(value.a, <<",">>)
    [] OTHER -> <<value.t>>

\* application/x-www-form-urlencoded serialisation of one value token.
EncodeFormToken(tok) == IF tok = "," THEN "%2C" ELSE tok
EncodeForm(s) == [i \in 1..Len(s) |-> EncodeFormToken(s[i])]

\* new URLSearchParams({...}).toString() over the four required names.
URLSearchParamsToString(query) ==
  Join([i \in 1..Len(requiredParams) |->
          <<requiredParams[i], "=">> \o EncodeForm(String(query[requiredParams[i]]))],
       <<"&">>)

\* Variant of OrderHandler that validates the query before it looks for the key.
OrderHandlerValidateFirst(method, apiKey, query, res) ==
  IF method # "GET"
  THEN Outcome(End(SetStatus(SetHeader(res, "Allow", <<"GET">>), 405), <<>>),
               "done", <<>>, {})
  ELSE LET missing == SelectSeq(requiredParams, LAMBDA key : IsMissing(query[key])) IN
       IF Len(missing) > 0
       THEN Outcome(StatusJson(res, 400, ErrorPayload(
                      <<"Missing required parameter(s): ">>
                      \o Join([i \in 1..Len(missing) |-> <<missing[i]>>], <<", ">>))),
                    "done", <<>>, {"query"})
       ELSE IF ~Truthy(apiKey)
       THEN Outcome(StatusJson(res, 500, ErrorPayload(
                      <<"Jupiter Ultra API key missing. Set JUPITER_ULTRA_API_KEY in Vercel env.">>)),
                    "done", <<>>, {"query"})
       ELSE Outcome(res, "fetching",
              <<[method |-> "GET",
                 url |-> <<JUPITER_ULTRA_BASE_URL, "/order", "?">>
                         \o URLSearchParamsToString(query),
                 headers |-> "x-api-key" :> apiKey.s, body |-> <<>>]>>,
              {"query"})

\* The standalone order handler, up to `await fetch(...)`.
OrderHandler(method, apiKey, query, res) ==
  IF method # "GET"
  THEN Outcome(End(SetStatus(SetHeader(res, "Allow", <<"GET">>), 405), <<>>),
               "done", <<>>, {})
  ELSE IF ~Truthy(apiKey)
  THEN Outcome(StatusJson(res, 500, ErrorPayload(
                 <<"Jupiter Ultra API key missing. Set JUPITER_ULTRA_API_KEY in Vercel env.">>)),
               "done", <<>>, {})
  ELSE LET missing == SelectSeq(requiredParams, LAMBDA key : IsMissing(query[key])) IN
       IF Len(missing) > 0
       THEN Outcome(StatusJson(res, 400, ErrorPayload(
                      <<"Missing required parameter(s): ">>
                      \o Join([i \in 1..Len(missing) |-> <<missing[i]>>], <<", ">>))),
                    "done", <<>>, {"query"})
       ELSE Outcome(res, "fetching",
              <<UpstreamRequest("GET",
                  <<JUPITER_ULTRA_BASE_URL, "/order", "?">> \o URLSearchParamsToString(query),
                  "x-api-key" :> apiKey.s, <<>>)>>,
              {"query"})

\* The catch clause of the order handlers.
OrderCatch(err, res) ==
  sendJson(res, 500, ErrorPayload(CatchMessage(err, <<"Jupiter order request failed.">>)))
OrderHandlerCatch(err, res) ==
  StatusJson(res, 500, ErrorPayload(CatchMessage(err, <<"Jupiter order request failed.">>)))

\* ------------------------------------------------------------------------
\* /api/jupiter/execute
\* ------------------------------------------------------------------------
\* A variant that also forwards the API key as a third field of the body.
ExecuteUpstreamKeyInBody(apiKey, signedTransaction, requestId) ==
  UpstreamRequest("POST", <<JUPITER_ULTRA_BASE_URL, "/execute">>,
    ("x-api-key" :> apiKey.s) @@ ("Content-Type" :> <<"application/json">>),
    JSONstringify(<<[k |-> "signedTransaction", v |-> signedTransaction],
                    [k |-> "requestId", v |-> requestId],
                    [k |-> "apiKey", v |-> apiKey]>>))

ExecuteUpstream(apiKey, signedTransaction, requestId) ==
  UpstreamRequest("POST", <<JUPITER_ULTRA_BASE_URL, "/execute">>,
    ("x-api-key" :> apiKey.s) @@ ("Content-Type" :> <<"application/json">>),
    JSONstringify(<<[k |-> "signedTransaction", v |-> signedTransaction],
                    [k |-> "requestId", v |-> requestId]>>))

\* The dev-server execute middleware, up to `await readBody(req)`.
ExecuteMiddlewareBegin(method, apiKey, res) ==
  IF method # "POST"
  THEN Outcome(End(SetHeader(SetStatus(res, 405), "Allow", <<"POST">>), <<>>),
               "done", <<>>, {})
  ELSE IF ~Truthy(apiKey) THEN Outcome(ensureApiKey(res), "done", <<>>, {})
  ELSE Outcome(res, "reading", <<>>, {"body"})

ExecuteCatch(err, res) ==
  sendJson(res, 500, ErrorPayload(CatchMessage(err, <<"Jupiter execute request failed.">>)))
ExecuteHandlerCatch(err, res) ==
  StatusJson(res, 500, ErrorPayload(CatchMessage(err, <<"Jupiter execute request failed.">>)))

\* The dev-server execute middleware from the settled readBody promise up to
\* `await fetch(...)`.
ExecuteMiddlewareResume(read, apiKey, res) ==
  IF ~read.ok THEN Outcome(ExecuteCatch(read, res), "done", <<>>, {})
  ELSE LET st == Prop(read.v, "signedTransaction") IN
  IF ~st.ok THEN Outcome(ExecuteCatch(st, res), "done", <<>>, {})
  ELSE LET signedTransaction == StringOrUndefined(st.v)
           requestId == StringOrUndefined(Prop(read.v, "requestId").v)
       IN IF ~Truthy(signedTransaction) \/ ~Truthy(requestId)
          THEN Outcome(sendJson(res, 400, ErrorPayload(
                 <<"signedTransaction and requestId are required in the Jupiter execute payload.">>)),
                 "done", <<>>, {})
          ELSE Outcome(res, "fetching",
                       <<ExecuteUpstream(apiKey, signedTransaction, requestId)>>, {})

\* parseBody of the standalone execute handler.
parseBody(body) ==
  IF Truthy(body) /\ body.t \in {"object", "array"} THEN Ok(body)
  ELSE IF body.t = "string" THEN JSONparse(body.s)
  ELSE Ok(JObj(<<>>))

\* The standalone execute handler, up to `await fetch(...)`.
ExecuteHandler(method, apiKey, reqbody, res) ==
  IF method # "POST"
  THEN Outcome(End(SetStatus(SetHeader(res, "Allow", <<"POST">>), 405), <<>>),
               "done", <<>>, {})
  ELSE IF ~Truthy(apiKey)
  THEN Outcome(StatusJson(res, 500, ErrorPayload(
                 <<"Jupiter Ultra API key missing. Set JUPITER_ULTRA_API_KEY in Vercel env.">>)),
               "done", <<>>, {})
  ELSE LET body == parseBody(reqbody) IN
  IF ~body.ok THEN Outcome(ExecuteHandlerCatch(body, res), "done", <<>>, {"body"})
  ELSE LET st == Prop(body.v, "signedTransaction") IN
  IF ~st.ok THEN Outcome(ExecuteHandlerCatch(st, res), "done", <<>>, {"body"})
  ELSE LET signedTransaction == StringOrUndefined(st.v)
           requestId == StringOrUndefined(Prop(body.v, "requestId").v)
       IN IF ~Truthy(signedTransaction) \/ ~Truthy(requestId)
          THEN Outcome(StatusJson(res, 400, ErrorPayload(
                 <<"signedTransaction and requestId are required in the execute payload.">>)),
                 "done", <<>>, {"body"})
          ELSE Outcome(res, "fetching",
                       <<ExecuteUpstream(apiKey, signedTransaction, requestId)>>, {"body"})

\* ------------------------------------------------------------------------
\* Requests and upstream replies the environment can produce
\* ------------------------------------------------------------------------
Methods == {"GET", "POST", "PUT"}

Origins == {<<"https:", "//", "x.example">>, <<"http:", "//", "y.example">>, <<>>}
Paths == {<<>>, <<"/pay">>}
Queries == {<<>>, <<"?">>, <<"?", "a=1">>, <<"?", "a=1", "&", "b=2">>,
            <<"?", "a=", " ">>, <<"?", "a=", "%20">>}
Fragments == {<<>>, <<"#", "f">>, <<"#", "?", "a=1">>}
Urls == {o \o p \o q \o f : o \in Origins, p \in Paths, q \in Queries, f \in Fragments}

\* The members JSON.stringify keeps: an undefined member is dropped.
Defined(k, v) == IF v.t = "undefined" THEN <<>> ELSE <<[k |-> k, v |-> v]>>

\* Texts a client can put on the wire that are not JSON objects.
OddTexts == {<<>>, <<"null">>, <<"7">>, <<"{">>, <<QUOTE, "tx", QUOTE>>}

SignWires ==
  OddTexts
  \cup {JSONstringify(Defined("url", u)) : u \in {Undefined, Num} \cup {JStr(x) : x \in Urls}}
  \cup {JSONstringify(Defined("extra", Num) \o Defined("url", JStr(x))) : x \in Urls}

TxValues == {Undefined, Num, JStr(<<>>), JStr(<<"tx">>)}
IdValues == {Undefined, Num, JStr(<<>>), JStr(<<"req-1">>)}
ExecuteMembers ==
  {Defined("signedTransaction", st) \o Defined("requestId", id) \o Defined("extra", x) :
     st \in TxValues, id \in IdValues, x \in {Undefined, Num}}
ExecuteWires == OddTexts \cup {JSONstringify(m) : m \in ExecuteMembers}

\* req.body as the function platform hands it over: absent, a parsed JSON
\* value, or the text itself.
ExecuteBodies ==
  {Undefined, Null, Num} \cup {JObj(m) : m \in ExecuteMembers}
  \cup {JStr(w) : w \in ExecuteWires}

\* Order queries: each required parameter absent or set, followed by up to
\* MaxDup further pairs, each a required parameter with an empty value or
\* a parameter the proxy does not require (further pairs in a fixed order of
\* names, the order of distinct names being immaterial to both handlers).
ParamValues == {Undefined, JStr(<<"1">>)}
Pair(k, v) == IF v.t = "undefined" THEN <<>> ELSE <<[k |-> <<k>>, v |-> v.s]>>
BaseQueries ==
  {Pair("inputMint", a) \o Pair("outputMint", b) \o Pair("amount", c) \o Pair("taker", d) :
     a \in ParamValues, b \in ParamValues, c \in ParamValues, d \in ParamValues}
DupPairs ==
  [i \in 1..Len(requiredParams) |-> [k |-> <<requiredParams[i]>>, v |-> <<>>]]
  \o <<[k |-> <<"slippageBps">>, v |-> <<"50">>]>>
DupSeqs ==
  {[i \in 1..Len(f) |-> DupPairs[f[i]]] :
     f \in {g \in UNION {[1..n -> 1..Len(DupPairs)] : n \in 0..MaxDup} :
              \A i \in 1..(Len(g) - 1) : g[i] <= g[i + 1]}}
OrderQueries == {b \o d : b \in BaseQueries, d \in DupSeqs}

\* The request url the client sends for a list of query pairs.
OrderUrl(pairs) ==
  <<"/api/jupiter/order">>
  \o (IF pairs = <<>> THEN <<>>
      ELSE <<"?">> \o Join([i \in 1..Len(pairs) |->
                              pairs[i].k \o <<"=">> \o pairs[i].v], <<"&">>))

\* req.query of the function platform: a name maps to its value, to the array
\* of its values when it is repeated, to undefined when it is absent.
QueryNames == {"inputMint", "outputMint", "amount", "taker", "slippageBps"}
ValuesOf(pairs, name) ==
  LET own == SelectSeq(pairs, LAMBDA p : p.k = <<name>>) IN
  [i \in 1..Len(own) |-> own[i].v]
ReqQuery(pairs) ==
  [name \in QueryNames |->
     LET vs == ValuesOf(pairs, name) IN
     IF Len(vs) = 0 THEN Undefined
     ELSE IF Len(vs) = 1 THEN JStr(vs[1])
     ELSE JArr(vs)]

UpstreamBodies == {<<>>, <<"{", "}">>,
                   JSONstringify(<<[k |-> "requestId", v |-> JStr(<<"req-1">>)]>>),
                   <<"Bad Gateway">>}
UpstreamReplies ==
  [t : {"response"}, status : {200, 400, 502},
   ctype : {Null, JStr(<<"application/json">>), JStr(<<"text/plain">>)},
   body : UpstreamBodies]

\* ------------------------------------------------------------------------
\* The state machine: one handler invocation from request to response
\* ------------------------------------------------------------------------
VARIABLES
  apiKey,    \* the configured upstream API key (undefined when not set)
  secret,    \* the configured signing secret (undefined when not set)
  req,       \* the request being served
  pc,        \* idle, reading (awaiting the body), fetching (awaiting the upstream), done
  data,      \* readBody's accumulated text
  pending,   \* the part of the request body the socket has not delivered yet
  stream,    \* the request stream: idle, open (listeners attached), ended, error
  res,       \* the response object
  upstream,  \* the upstream requests issued for this invocation
  reply,     \* what the upstream call settled with
  touched    \* the parts of the request (body, query) the handler has looked at

\* Handler invocations running in parallel (specification ParallelSpec).
VARIABLES
  slots,     \* per invocation: its request, position, stream, response, upstream call
  cells      \* the `data` accumulators of the readBody calls in progress

\* The browser client, src/src/App.tsx (specification ClientSpec).
VARIABLES
  sdkLoaded,           \* window.MetaKeep is defined
  walletState,         \* useState: status, address?, message?
  activeSurface,       \* useState: onramp or swap
  swapAmount,          \* useState: the amount input
  takerAddress,        \* useState: the taker input
  orderMessage,        \* useState
  orderStatus,         \* useState: idle, loading, success, error
  orderQuote,          \* useState: the last quote payload, or null
  pendingRequestId,    \* useState
  pendingTransaction,  \* useState
  executeMessage,      \* useState
  executeStatus,       \* useState: idle, loading, success, error
  orderCall,           \* handleOrderSubmit suspended at its fetch, with its closure
  executeCall,         \* handleSignAndExecute suspended at an await, with its closure
  event,               \* the SDK or network call the last step made, if any
  quotedFor,           \* the amount and taker of the quote the pending values came from
  orderReply,          \* what the last quote request settled with
  executed             \* the requestId/transaction pairs whose execute call has settled

serverVars ==
  <<apiKey, secret, req, pc, data, pending, stream, res, upstream, reply, touched>>
parallelVars == <<slots, cells>>
clientVars ==
  <<sdkLoaded, walletState, activeSurface, swapAmount, takerAddress, orderMessage,
    orderStatus, orderQuote, pendingRequestId, pendingTransaction, executeMessage,
    executeStatus, orderCall, executeCall, event, quotedFor, orderReply, executed>>
vars == <<serverVars, parallelVars, clientVars>>

NoRequest ==
  [endpoint |-> "none", impl |-> "none", method |-> "none", url |-> <<>>,
   query |-> ReqQuery(<<>>), wire |-> <<>>, body |-> Undefined]
NoReply == [t |-> "none"]

\* No handler invocation is in progress.
NoInvocation ==
  /\ req = NoRequest
  /\ pc = "idle"
  /\ data = <<>>
  /\ pending = <<>>
  /\ stream = "idle"
  /\ res = FreshResponse
  /\ upstream = <<>>
  /\ reply = NoReply
  /\ touched = {}

NoParallel == slots = <<>> /\ cells = <<>>

DEFAULT_SWAP_AMOUNT == <<"1">>
NoCall == [t |-> "none"]
NoEvent == [to |-> "none"]
NoQuote == [t |-> "none"]

\* The client's state as App mounts: the useState defaults, nothing in flight.
Mounted ==
  /\ walletState = [status |-> "idle", address |-> Undefined, message |-> Undefined]
  /\ activeSurface = "onramp"
  /\ swapAmount = DEFAULT_SWAP_AMOUNT
  /\ takerAddress = <<>>
  /\ orderMessage = <<"Quote a swap by specifying the base-unit amount and taker.">>
  /\ orderStatus = "idle"
  /\ orderQuote = Null
  /\ pendingRequestId = <<>>
  /\ pendingTransaction = <<>>
  /\ executeMessage = <<"Awaiting an unsigned transaction from Jupiter Ultra.">>
  /\ executeStatus = "idle"
  /\ orderCall = NoCall
  /\ executeCall = NoCall
  /\ event = NoEvent
  /\ quotedFor = NoQuote
  /\ orderReply = NoReply
  /\ executed = {}

Init ==
  /\ apiKey \in ApiKeys
  /\ secret \in Secrets
  /\ NoInvocation
  /\ NoParallel
  /\ sdkLoaded = TRUE
  /\ Mounted

\* The handler ran a segment with outcome o.
Apply(o) ==
  /\ res' = o.res
  /\ pc' = o.pc
  /\ upstream' = upstream \o o.up
  /\ touched' = touched \cup o.touched

\* A request arrives and its handler runs up to its first await.
Serve(r, o) ==
  /\ pc = "idle"
  /\ req' = r
  /\ data' = <<>>
  /\ pending' = r.wire
  /\ stream' = IF o.pc = "reading" THEN "open" ELSE "idle"
  /\ Apply(o)
  /\ UNCHANGED <<apiKey, secret, reply>>
  /\ UNCHANGED <<parallelVars, clientVars>>

SignMoonPayRequest ==
  \E method \in Methods, wire \in SignWires :
    Serve([NoRequest EXCEPT !.endpoint = "sign", !.impl = "dev", !.method = method,
                            !.url = <<"/api/sign-moonpay">>, !.wire = wire],
          SignMoonPayBegin(method, secret, res))

OrderMiddlewareRequest ==
  \E method \in Methods, pairs \in OrderQueries :
    Serve([NoRequest EXCEPT !.endpoint = "order", !.impl = "dev", !.method = method,
                            !.url = OrderUrl(pairs)],
          OrderMiddleware(method, apiKey, OrderUrl(pairs), res))

OrderHandlerRequest ==
  \E method \in Methods, pairs \in OrderQueries :
    Serve([NoRequest EXCEPT !.endpoint = "order", !.impl = "fn", !.method = method,
                            !.url = OrderUrl(pairs), !.query = ReqQuery(pairs)],
          OrderHandler(method, apiKey, ReqQuery(pairs), res))

ExecuteMiddlewareRequest ==
  \E method \in Methods, wire \in ExecuteWires :
    Serve([NoRequest EXCEPT !.endpoint = "execute", !.impl = "dev", !.method = method,
                            !.url = <<"/api/jupiter/execute">>, !.wire = wire],
          ExecuteMiddlewareBegin(method, apiKey, res))

ExecuteHandlerRequest ==
  \E method \in Methods, body \in ExecuteBodies :
    Serve([NoRequest EXCEPT !.endpoint = "execute", !.impl = "fn", !.method = method,
                            !.url = <<"/api/jupiter/execute">>, !.body = body],
          ExecuteHandler(method, apiKey, body, res))

\* req.on('data'): the socket delivers the next n tokens of the body.
OnData ==
  /\ pc = "reading"
  /\ \E n \in 1..Len(pending) :
       /\ data' = data \o SubSeq(pending, 1, n)
       /\ pending' = SubSeq(pending, n + 1, Len(pending))
  /\ UNCHANGED <<apiKey, secret, req, pc, stream, res, upstream, reply, touched>>
  /\ UNCHANGED <<parallelVars, clientVars>>

\* req.on('end') while the signature handler awaits the body.
OnEndSignMoonPay ==
  /\ pc = "reading" /\ pending = <<>> /\ req.endpoint = "sign"
  /\ stream' = "ended"
  /\ Apply(Outcome(SignMoonPayResume(readBody(data), secret, res), "done", <<>>, {}))
  /\ UNCHANGED <<apiKey, secret, req, data, pending, reply>>
  /\ UNCHANGED <<parallelVars, clientVars>>

\* req.on('end') while the execute middleware awaits the body.
OnEndExecute ==
  /\ pc = "reading" /\ pending = <<>> /\ req.endpoint = "execute"
  /\ stream' = "ended"
  /\ Apply(ExecuteMiddlewareResume(readBody(data), apiKey, res))
  /\ UNCHANGED <<apiKey, secret, req, data, pending, reply>>
  /\ UNCHANGED <<parallelVars, clientVars>>

\* req.on('error'): readBody rejects and the handler's catch clause answers.
OnError ==
  /\ pc = "reading"
  /\ LET err == Throw(<<"aborted">>) IN
     Apply(Outcome(IF req.endpoint = "sign" THEN SignMoonPayCatch(err, res)
                   ELSE ExecuteCatch(err, res),
                   "done", <<>>, {}))
  /\ stream' = "error"
  /\ UNCHANGED <<apiKey, secret, req, data, pending, reply>>
  /\ UNCHANGED <<parallelVars, clientVars>>

\* The upstream answers and its body is read: the response is relayed.
FetchResolve ==
  /\ pc = "fetching"
  /\ \E r \in UpstreamReplies :
       /\ reply' = r
       /\ Apply(Outcome(IF req.impl = "dev" THEN forwardJupiterResponse(r, res)
                        ELSE forwardResponse(r, res),
                        "done", <<>>, {}))
  /\ UNCHANGED <<apiKey, secret, req, data, pending, stream>>
  /\ UNCHANGED <<parallelVars, clientVars>>

\* The catch clause that encloses the upstream call of the request served.
CatchOf(r, err, response) ==
  CASE r.endpoint = "order" /\ r.impl = "dev" -> OrderCatch(err, response)
    [] r.endpoint = "order" /\ r.impl = "fn" -> OrderHandlerCatch(err, response)
    [] r.endpoint = "execute" /\ r.impl = "dev" -> ExecuteCatch(err, response)
    [] OTHER -> ExecuteHandlerCatch(err, response)

\* fetch rejects (network failure), or upstream.text() rejects after the
\* status line arrived: nothing of the response was set yet.
FetchReject ==
  /\ pc = "fetching"
  /\ \E r \in {[t |-> "reject", message |-> <<"fetch failed">>],
               [t |-> "textreject", message |-> <<"terminated">>]} :
       /\ reply' = r
       /\ Apply(Outcome(CatchOf(req, r, res), "done", <<>>, {}))
  /\ UNCHANGED <<apiKey, secret, req, data, pending, stream>>
  /\ UNCHANGED <<parallelVars, clientVars>>

\* The invocation is over; the next request gets a fresh response object.
Finish ==
  /\ pc = "done"
  /\ req' = NoRequest
  /\ pc' = "idle"
  /\ data' = <<>>
  /\ pending' = <<>>
  /\ stream' = "idle"
  /\ res' = FreshResponse
  /\ upstream' = <<>>
  /\ reply' = NoReply
  /\ touched' = {}
  /\ UNCHANGED <<apiKey, secret>>
  /\ UNCHANGED <<parallelVars, clientVars>>

Next ==
  \/ SignMoonPayRequest
  \/ OrderMiddlewareRequest
  \/ OrderHandlerRequest
  \/ ExecuteMiddlewareRequest
  \/ ExecuteHandlerRequest
  \/ OnData
  \/ OnEndSignMoonPay
  \/ OnEndExecute
  \/ OnError
  \/ FetchResolve
  \/ FetchReject
  \/ Finish

Spec == Init /\ [][Next]_vars

TypeOK ==
  /\ pc \in {"idle", "reading", "fetching", "done"}
  /\ res.sent \in 0..1
  /\ Len(upstream) \in 0..1
  /\ pc = "done" <=> res.sent = 1

\* ------------------------------------------------------------------------
\* Properties
\* ------------------------------------------------------------------------
\* The one method each endpoint accepts.
Accepts(endpoint) == IF endpoint = "order" THEN "GET" ELSE "POST"

Serving == req.endpoint # "none"
Answered == pc = "done"

\* The query pairs of the request url as the client sent them.
ClientQuery ==
  IF Len(req.url) < 2 THEN <<>>
  ELSE PairsOf(Split(SubSeq(req.url, 3, Len(req.url)), "&"))

\* A parameter is absent or empty: the query carries no non-empty value for it.
AbsentOrEmpty(name) ==
  \A i \in 1..Len(ClientQuery) : ClientQuery[i].k = <<name>> => ClientQuery[i].v = <<>>

MissingParams == {i \in 1..Len(requiredParams) : AbsentOrEmpty(requiredParams[i])}

OrderGetWithKey == req.endpoint = "order" /\ req.method = "GET" /\ Truthy(apiKey)

\* C1: a GET on the quote proxy (either deployment) with an API key and a
\* required parameter absent or empty is answered 400 and issues no upstream
\* request.
C1_MissingParamIs400 ==
  (OrderGetWithKey /\ MissingParams # {})
    => (upstream = <<>> /\ Answered /\ res.status = 400)

\* The body of an execute request as text, when it travels as text.
ExecuteText ==
  IF req.impl = "dev" THEN JStr(req.wire)
  ELSE IF req.body.t = "string" THEN req.body
  ELSE Undefined

\* The JSON value an execute request carries: none for an empty body.
ExecuteValue ==
  IF ExecuteText.t = "string"
  THEN (IF ExecuteText.s = <<>> THEN Ok(Undefined) ELSE JSONparse(ExecuteText.s))
  ELSE Ok(req.body)

HasString(v, k) ==
  /\ v.t = "object"
  /\ Member(v.m, k).t = "string"
  /\ Len(Member(v.m, k).s) > 0

ExecutePostWithKey == req.endpoint = "execute" /\ req.method = "POST" /\ Truthy(apiKey)

\* The body is well-formed JSON (or empty) and lacks one of the two fields.
ExecuteBodyLacksField ==
  /\ ExecuteValue.ok
  /\ ~HasString(ExecuteValue.v, "signedTransaction") \/ ~HasString(ExecuteValue.v, "requestId")

\* C2: a POST on the execute proxy (either deployment) with an API key whose
\* body lacks signedTransaction or requestId is answered 400 and issues no
\* upstream request (the request stream itself not failing).
C2_MissingFieldIs400 ==
  (ExecutePostWithKey /\ ExecuteBodyLacksField /\ stream # "error")
    => (upstream = <<>> /\ (Answered => res.status = 400))

\* C3: with a method other than the accepted one, every endpoint answers 405
\* with an Allow header naming the accepted method and an empty body, without
\* reading the body or calling the upstream, under every configuration.
C3_WrongMethodIs405 ==
  (Serving /\ req.method # Accepts(req.endpoint))
    => /\ Answered
       /\ res.sent = 1
       /\ res.status = 405
       /\ res.headers = ("Allow" :> <<Accepts(req.endpoint)>>)
       /\ res.body = <<>>
       /\ touched = {}
       /\ stream = "idle"
       /\ data = <<>>
       /\ upstream = <<>>

C3_Witness ==
  /\ Answered /\ res.status = 405
  /\ req.endpoint = "execute" /\ req.impl = "dev" /\ req.method = "GET"
  /\ req.wire # <<>> /\ ~Truthy(apiKey)

\* The secret or key the endpoint depends on is not configured.
Unconfigured ==
  IF req.endpoint = "sign" THEN ~Truthy(secret) ELSE ~Truthy(apiKey)

\* C4 as stated: with the secret or key missing the endpoint answers 500
\* without reading the body, inspecting the query or calling the upstream.
C4_UnconfiguredIs500 ==
  (Serving /\ Unconfigured)
    => (Answered /\ res.status = 500 /\ touched = {} /\ upstream = <<>>)

\* C4 amended: with the secret or key missing, a request with the accepted
\* method is answered 500 without reading the body, inspecting the query or
\* calling the upstream.
C4_UnconfiguredIs500ForAcceptedMethod ==
  (Serving /\ Unconfigured /\ req.method = Accepts(req.endpoint))
    => /\ Answered
       /\ res.sent = 1
       /\ res.status = 500
       /\ touched = {}
       /\ stream = "idle"
       /\ upstream = <<>>

C4_Witness ==
  /\ Answered /\ res.status = 500 /\ Unconfigured
  /\ req.endpoint = "order" /\ req.impl = "fn" /\ req.method = "GET"
  /\ MissingParams # {}

\* C5: the response relayed for an upstream response has the upstream status,
\* the upstream content type (application/json when there is none) and the
\* upstream body, {} standing in for an empty one.
C5_RelayVerbatim ==
  (reply.t = "response")
    => /\ Answered
       /\ res.sent = 1
       /\ res.status = reply.status
       /\ res.headers = ("Content-Type" :>
            (IF reply.ctype = Null THEN <<"application/json">> ELSE reply.ctype.s))
       /\ res.body = (IF reply.body = <<>> THEN <<"{", "}">> ELSE reply.body)

C5_Witness ==
  /\ reply.t = "response" /\ reply.status = 502 /\ reply.body = <<>>
  /\ reply.ctype = Null /\ req.impl = "fn" /\ res.status = 502

\* The configured secret values.
Confidential ==
  (IF Truthy(apiKey) THEN {apiKey.s} ELSE {})
  \cup (IF Truthy(secret) THEN {secret.s} ELSE {})

\* C6: no response (body or header) contains the signing secret or the API
\* key; the API key appears in an upstream request only as its x-api-key
\* header and the signing secret in none.
C6_NoSecretInResponse ==
  /\ \A c \in Confidential :
       /\ ~Contains(res.body, c)
       /\ \A h \in DOMAIN res.headers : ~Contains(res.headers[h], c)
  /\ \A i \in 1..Len(upstream) :
       /\ upstream[i].headers["x-api-key"] = apiKey.s
       /\ \A c \in Confidential :
            /\ ~Contains(upstream[i].url, c)
            /\ ~Contains(upstream[i].body, c)
            /\ \A h \in DOMAIN upstream[i].headers \ {"x-api-key"} :
                 ~Contains(upstream[i].headers[h], c)
       /\ Truthy(secret) => ~Contains(upstream[i].headers["x-api-key"], secret.s)

C6_Witness ==
  /\ Answered /\ Len(upstream) = 1 /\ Truthy(secret) /\ Truthy(apiKey)
  /\ req.endpoint = "execute" /\ reply.t = "reject" /\ res.status = 500

\* The JSON value a signature request carries: {} for an empty body.
SignValue == readBody(req.wire)

\* The body has a url string field that parses as a URL.
SignUrlUsable ==
  /\ SignValue.ok
  /\ SignValue.v.t = "object"
  /\ Member(SignValue.v.m, "url").t = "string"
  /\ NewURL(Member(SignValue.v.m, "url").s).ok

SignaturePayload(body) == Len(body) > 2 /\ SubSeq(body, 2, 4) = <<QUOTE, "signature", QUOTE>>

\* C7: a POST on the signing endpoint with the secret configured whose body
\* has no url string field, or a url that does not parse, is answered 400 and
\* returns no signature (the request stream itself not failing).
C7_BadUrlIs400 ==
  (req.endpoint = "sign" /\ req.method = "POST" /\ Truthy(secret) /\ Answered
     /\ stream = "ended" /\ SignValue.ok /\ ~SignUrlUsable)
    => (res.status = 400 /\ ~SignaturePayload(res.body))

\* The query-string component of a url of the model: the query it was built
\* with, as the URL standard serialises it.
QueryComponent(u) ==
  LET q == CHOOSE x \in Queries :
             \E o \in Origins, p \in Paths, f \in Fragments : u = o \o p \o x \o f
  IN IF q = <<"?">> THEN <<>>
     ELSE [i \in 1..Len(q) |-> IF q[i] = " " THEN "%20" ELSE q[i]]

AbsoluteUrls == {o \o p \o q \o f : o \in Origins \ {<<>>}, p \in Paths,
                                    q \in Queries, f \in Fragments}

\* The response body the signing endpoint gives for a url under a secret.
SignatureOf(u, s) ==
  SignMoonPayResume(Ok(JObj(Defined("url", JStr(u)))), JStr(s), FreshResponse).body

SignedUrl == Member(SignValue.v.m, "url").s

\* C8: the signature returned is that of the pair (query-string component of
\* the url, secret): any url and secret give the same signature exactly when
\* they have the same query-string component and the same secret.
C8_SignatureOfQueryAndSecret ==
  (req.endpoint = "sign" /\ Answered /\ res.status = 200)
    => /\ SignaturePayload(res.body)
       /\ \A u \in AbsoluteUrls, s \in {<<"sk-1">>, <<"sk-2">>} :
            (SignatureOf(u, s) = res.body)
              <=> (QueryComponent(u) = QueryComponent(SignedUrl) /\ s = secret.s)

C8_Witness ==
  /\ req.endpoint = "sign" /\ Answered /\ res.status = 200
  /\ QueryComponent(SignedUrl) = <<"?", "a=1", "&", "b=2">>
  /\ Contains(SignedUrl, <<"#">>) /\ secret = JStr(<<"sk-2">>)

\* C9: with required parameters missing, the quote proxy (either deployment)
\* answers 400 with the error 'Missing required parameter: <name>', <name>
\* the first missing one in the order inputMint, outputMint, amount, taker.
C9_FirstMissingNamed ==
  (OrderGetWithKey /\ Answered /\ MissingParams # {})
    => LET first == CHOOSE i \in MissingParams : \A j \in MissingParams : i <= j IN
       /\ res.status = 400
       /\ res.body = JSONstringify(ErrorPayload(
                       <<"Missing required parameter: ", requiredParams[first]>>))

\* The query string of the request url, from its '?' on.
OriginalSearch == SubSeq(req.url, 2, Len(req.url))

\* C10: the upstream request of the quote proxy (either deployment) is one
\* GET to the base endpoint plus /order with the original query string, the
\* API key in the x-api-key header and not in the url; every valid GET gets
\* one.
C10_OriginalQueryForwarded ==
  /\ (req.endpoint = "order" /\ upstream # <<>>)
       => /\ Len(upstream) = 1
          /\ upstream[1].method = "GET"
          /\ upstream[1].url = <<JUPITER_ULTRA_BASE_URL, "/order">> \o OriginalSearch
          /\ upstream[1].headers = ("x-api-key" :> apiKey.s)
          /\ ~Contains(upstream[1].url, apiKey.s)
  /\ (OrderGetWithKey /\ MissingParams = {}) => Len(upstream) = 1

\* ------------------------------------------------------------------------
\* C11: what the execute proxy sends upstream
\* ------------------------------------------------------------------------
\* The body is well-formed JSON carrying both fields as non-empty strings.
ExecuteBodyValid ==
  /\ ExecuteValue.ok
  /\ HasString(ExecuteValue.v, "signedTransaction")
  /\ HasString(ExecuteValue.v, "requestId")

\* The two fields of the client's body, and nothing else of it.
ClientExecuteFields ==
  <<[k |-> "signedTransaction", v |-> Member(ExecuteValue.v.m, "signedTransaction")],
    [k |-> "requestId", v |-> Member(ExecuteValue.v.m, "requestId")]>>

\* The handler has read the request body (the stream not having failed).
BodyConsumed == pc \in {"fetching", "done"} /\ stream # "error"

\* C11: the upstream request of the execute proxy (either deployment) is one
\* POST to the base endpoint plus /execute whose JSON body has exactly the
\* members signedTransaction and requestId with the client's values, the API
\* key travelling in the x-api-key header; every valid POST gets one.
C11_ExecuteForwardsTwoFields ==
  /\ (req.endpoint = "execute" /\ upstream # <<>>)
       => /\ Len(upstream) = 1
          /\ ExecuteBodyValid
          /\ upstream[1].method = "POST"
          /\ upstream[1].url = <<JUPITER_ULTRA_BASE_URL, "/execute">>
          /\ upstream[1].body = JSONstringify(ClientExecuteFields)
          /\ JSONparse(upstream[1].body) = Ok(JObj(ClientExecuteFields))
          /\ upstream[1].headers["x-api-key"] = apiKey.s
          /\ ~Contains(upstream[1].body, apiKey.s)
  /\ (ExecutePostWithKey /\ ExecuteBodyValid /\ BodyConsumed) => Len(upstream) = 1

\* A client body with a further field has been forwarded.
C11_Witness ==
  /\ req.endpoint = "execute"
  /\ upstream # <<>>
  /\ ExecuteValue.ok /\ ExecuteValue.v.t = "object"
  /\ Member(ExecuteValue.v.m, "extra") # Undefined
  /\ pc = "done"

\* ========================================================================
\* The browser client (src/src/App.tsx): wallet, quote and execute flow
\* ========================================================================
\* State that is only rendered (the derived output amount, the MoonPay widget
\* parameters) is left out; every useState cell the handlers write is kept.
DEFAULT_INPUT_MINT == <<"USDC-mint">>
DEFAULT_OUTPUT_MINT == <<"LOOK-mint">>

\* What the user can type into the two inputs.
Amounts == {<<>>, <<"1">>, <<"2">>}
Takers == {<<>>, <<"taker-1">>}

\* What sdk.getWallet() can settle with.
WalletReplies ==
  {[t |-> "resolve", status |-> "SUCCESS", solAddress |-> JStr(<<"wallet-1">>)],
   [t |-> "resolve", status |-> "SUCCESS", solAddress |-> Undefined],
   [t |-> "resolve", status |-> "ERROR", solAddress |-> Undefined],
   [t |-> "reject", message |-> <<"User closed the MetaKeep frame.">>]}

\* atob: a base64 text is the marker token followed by the bytes it encodes;
\* any other text makes atob throw.
decodeBase64(value) ==
  IF value # <<>> /\ value[1] = "b64:" THEN Ok(SubSeq(value, 2, Len(value)))
  ELSE Throw(<<"The string to be decoded is not correctly encoded.">>)
encodeBase64(bytes) == <<"b64:">> \o bytes

\* VersionedTransaction.deserialize / serialize: the bytes are a signature
\* slot followed by the message; bytes of another shape do not deserialize.
Deserialize(bytes) ==
  IF Len(bytes) = 2 /\ bytes[1] \in {"sig:none", "sig:metakeep"}
  THEN Ok([signature |-> bytes[1], message |-> bytes[2]])
  ELSE Throw(<<"Reached end of buffer unexpectedly">>)
Serialize(transaction) == <<transaction.signature, transaction.message>>

\* What sdk.signTransaction can settle with: on SUCCESS the SDK has put the
\* signature into the transaction object it was handed.
SignReplies ==
  {[t |-> "resolve", status |-> "SUCCESS"],
   [t |-> "resolve", status |-> "ERROR"],
   [t |-> "reject", message |-> <<"User denied the signature request.">>]}
Signed(transaction, r) ==
  IF r.status = "SUCCESS" THEN [transaction EXCEPT !.signature = "sig:metakeep"]
  ELSE transaction

\* What the quote proxy can answer the client: a network failure, a body
\* that is not JSON, an error status, or an OK status with a payload.
UnsignedTx(n) == encodeBase64(<<"sig:none", n>>)
FullQuote ==
  JObj(Defined("requestId", JStr(<<"req-1">>)) \o Defined("swapTransaction", JStr(UnsignedTx("tx-1"))))
QuotePayloads ==
  {FullQuote,
   JObj(Defined("requestId", JStr(<<"req-2">>)) \o Defined("transaction", JStr(UnsignedTx("tx-2")))),
   JObj(Defined("requestId", JStr(<<"req-1">>))),
   JObj(Defined("requestId", Num) \o Defined("swapTransaction", JStr(UnsignedTx("tx-1")))),
   JObj(Defined("requestId", JStr(<<"req-2">>)) \o Defined("swapTransaction", JStr(<<>>))
        \o Defined("transaction", JStr(UnsignedTx("tx-2")))),
   JObj(Defined("requestId", JStr(<<"req-1">>)) \o Defined("swapTransaction", JStr(<<"not-base64">>))),
   Null}
ErrorPayloads ==
  {JObj(Defined("error", JStr(<<"Missing required parameter: taker">>))), JObj(<<>>), Null}
QuoteReplies ==
  {[t |-> "reject", message |-> <<"Failed to fetch">>]}
  \cup {[t |-> "response", ok |-> ok, json |-> Throw(<<"Unexpected token < in JSON">>)] :
          ok \in BOOLEAN}
  \cup {[t |-> "response", ok |-> TRUE, json |-> Ok(p)] : p \in QuotePayloads}
  \cup {[t |-> "response", ok |-> FALSE, json |-> Ok(p)] : p \in ErrorPayloads \cup {FullQuote}}

\* What the execute proxy can answer the client.
ExecutePayloads ==
  {JObj(Defined("status", JStr(<<"Success">>)) \o Defined("signature", JStr(<<"5xSig">>))),
   JObj(<<>>)}
ExecuteReplies ==
  {[t |-> "reject", message |-> <<"Failed to fetch">>],
   [t |-> "response", ok |-> TRUE, json |-> Throw(<<"Unexpected token < in JSON">>)]}
  \cup {[t |-> "response", ok |-> TRUE, json |-> Ok(p)] : p \in ExecutePayloads}
  \cup {[t |-> "response", ok |-> FALSE, json |-> Ok(p)] : p \in ErrorPayloads}

\* `typeof payload.k === "string" ? payload.k : fallback` (payload an object).
StringOr(payload, k, fallback) ==
  IF Member(payload.m, k).t = "string" THEN Member(payload.m, k).s ELSE fallback

\* ------------------------------------------------------------------------
\* Derived values of a render
\* ------------------------------------------------------------------------
isRouteReady == pendingTransaction # <<>> /\ pendingRequestId # <<>>
primaryCtaLoading ==
  IF isRouteReady THEN executeStatus = "loading" ELSE orderStatus = "loading"

\* ------------------------------------------------------------------------
\* handleOrderSubmit
\* ------------------------------------------------------------------------
\* A variant whose guard looks at the amount only.
OrderRefusalAmountOnly(amount, taker) ==
  IF amount = <<>>
  THEN <<"Amount (base units) and taker are required.">>
  ELSE <<>>

\* The message of the guard that refuses to quote, or none.
OrderRefusal(amount, taker) ==
  IF amount = <<>> \/ taker = <<>>
  THEN <<"Amount (base units) and taker are required.">>
  ELSE <<>>

\* The url of the quote request.
OrderRequestUrl(amount, taker) ==
  <<"/api/jupiter/order", "?">>
  \o URLSearchParamsToString(
       ("inputMint" :> JStr(DEFAULT_INPUT_MINT)) @@ ("outputMint" :> JStr(DEFAULT_OUTPUT_MINT))
       @@ ("amount" :> JStr(amount)) @@ ("taker" :> JStr(taker)))

\* The try block from the settled fetch on: the payload it goes on with, or
\* what it throws.
OrderPayload(r) ==
  IF r.t = "reject" THEN Throw(r.message)
  ELSE IF ~r.json.ok THEN r.json
  ELSE IF ~r.ok
  THEN LET e == Prop(r.json.v, "error") IN
       IF ~e.ok THEN e
       ELSE Throw(IF e.v.t = "string" THEN e.v.s ELSE <<"Jupiter order request failed.">>)
  ELSE LET id == Prop(r.json.v, "requestId") IN
       IF ~id.ok THEN id ELSE Ok(r.json.v)

nextRequestId(payload) == StringOr(payload, "requestId", <<>>)
unsignedTransaction(payload) ==
  StringOr(payload, "swapTransaction", StringOr(payload, "transaction", <<>>))

\* setOrderQuote(payload) has run before the catch clause is entered.
QuoteWasStored(r) == r.t = "response" /\ r.json.ok /\ r.ok

\* ------------------------------------------------------------------------
\* handleSignAndExecute
\* ------------------------------------------------------------------------
\* A variant without the wallet guard.
ExecuteRefusalNoWalletGuard(transaction, requestId, address, sdk) ==
  IF transaction = <<>> \/ requestId = <<>>
  THEN <<"Request a route and unsigned transaction before executing.">>
  ELSE IF ~sdk THEN <<"MetaKeep SDK unavailable. Refresh and retry.">>
  ELSE <<>>

\* The message of the guard that refuses to sign and execute, or none.
ExecuteRefusal(transaction, requestId, address, sdk) ==
  IF transaction = <<>> \/ requestId = <<>>
  THEN <<"Request a route and unsigned transaction before executing.">>
  ELSE IF ~Truthy(address)
  THEN <<"Secure your MetaKeep wallet before signing swaps.">>
  ELSE IF ~sdk THEN <<"MetaKeep SDK unavailable. Refresh and retry.">>
  ELSE <<>>

\* decodeBase64 and VersionedTransaction.deserialize of the pending text.
PendingDeserialized(text) ==
  LET bytes == decodeBase64(text) IN
  IF ~bytes.ok THEN bytes ELSE Deserialize(bytes.v)

\* The body of the execute request.
ExecuteRequestBody(transaction, requestId) ==
  JSONstringify(<<[k |-> "signedTransaction", v |-> JStr(encodeBase64(Serialize(transaction)))],
                  [k |-> "requestId", v |-> JStr(requestId)]>>)

\* The try block from the settled execute fetch on: the message it ends
\* with, as a success or as what it throws.
ExecuteResult(r) ==
  IF r.t = "reject" THEN Throw(r.message)
  ELSE IF ~r.json.ok THEN r.json
  ELSE IF ~r.ok
  THEN LET e == Prop(r.json.v, "error") IN
       IF ~e.ok THEN e
       ELSE Throw(IF e.v.t = "string" THEN e.v.s ELSE <<"Jupiter execute request failed.">>)
  ELSE LET st == Prop(r.json.v, "status") IN
       IF ~st.ok THEN st
       ELSE Ok(StringOr(r.json.v, "status", <<"Success">>) \o <<" · Signature ">>
               \o StringOr(r.json.v, "signature", <<"pending">>))

\* ------------------------------------------------------------------------
\* The client state machine
\* ------------------------------------------------------------------------
formVars == <<swapAmount, takerAddress>>
orderVars ==
  <<orderMessage, orderStatus, orderQuote, pendingRequestId, pendingTransaction,
    orderCall, quotedFor, orderReply>>
executeVars == <<executeMessage, executeStatus, executeCall>>

ClientInit ==
  /\ apiKey = Undefined
  /\ secret = Undefined
  /\ NoInvocation
  /\ NoParallel
  /\ sdkLoaded \in BOOLEAN
  /\ Mounted

\* A click on one of the two navigation tabs.
SelectSurface ==
  /\ \E surface \in {"onramp", "swap"} \ {activeSurface} : activeSurface' = surface
  /\ event' = NoEvent
  /\ UNCHANGED <<sdkLoaded, walletState, formVars, orderVars, executeVars, executed>>
  /\ UNCHANGED <<serverVars, parallelVars>>

\* onChange of the amount input (rendered on the swap surface).
ChangeAmount ==
  /\ activeSurface = "swap"
  /\ \E value \in Amounts \ {swapAmount} : swapAmount' = value
  /\ event' = NoEvent
  /\ UNCHANGED <<sdkLoaded, walletState, activeSurface, takerAddress, orderVars,
                 executeVars, executed>>
  /\ UNCHANGED <<serverVars, parallelVars>>

\* onChange of the taker input.
ChangeTaker ==
  /\ activeSurface = "swap"
  /\ \E value \in Takers \ {takerAddress} : takerAddress' = value
  /\ event' = NoEvent
  /\ UNCHANGED <<sdkLoaded, walletState, activeSurface, swapAmount, orderVars,
                 executeVars, executed>>
  /\ UNCHANGED <<serverVars, parallelVars>>

\* A click on the wallet button (disabled while a request is loading):
\* handleWalletRequest up to `await sdk.getWallet()`.
HandleWalletRequest ==
  /\ walletState.status # "loading"
  /\ IF ~sdkLoaded
     THEN /\ walletState' = [status |-> "error", address |-> Undefined,
                             message |-> JStr(<<"MetaKeep SDK is not available. Refresh and retry.">>)]
          /\ event' = NoEvent
     ELSE /\ walletState' = [status |-> "loading", address |-> Undefined,
                             message |-> JStr(<<"Securing your wallet session with MetaKeep...">>)]
          /\ event' = [to |-> "getWallet"]
  /\ UNCHANGED <<sdkLoaded, activeSurface, formVars, orderVars, executeVars, executed>>
  /\ UNCHANGED <<serverVars, parallelVars>>

\* sdk.getWallet() settles: the rest of handleWalletRequest, and the effect
\* that copies a newly secured address into an empty taker field.
GetWalletSettles ==
  /\ walletState.status = "loading"
  /\ \E r \in WalletReplies :
       IF r.t = "resolve" /\ r.status = "SUCCESS" /\ Truthy(r.solAddress)
       THEN /\ walletState' = [status |-> "ready", address |-> r.solAddress,
                               message |-> JStr(<<"Wallet secured. You can proceed with the $LOOK purchase.">>)]
            /\ takerAddress' = IF takerAddress # <<>> THEN takerAddress ELSE r.solAddress.s
       ELSE /\ walletState' = [status |-> "error", address |-> Undefined,
                               message |-> JStr(IF r.t = "reject" THEN r.message
                                                ELSE <<"MetaKeep did not return a Solana address.">>)]
            /\ UNCHANGED takerAddress
  /\ event' = NoEvent
  /\ UNCHANGED <<sdkLoaded, activeSurface, swapAmount, orderVars, executeVars, executed>>
  /\ UNCHANGED <<serverVars, parallelVars>>

\* The form is submitted with no route pending (the submit button is
\* disabled while the quote is loading): handlePrimaryCta calls
\* handleOrderSubmit, which runs up to `await fetch(...)`.
HandleOrderSubmit ==
  /\ activeSurface = "swap" /\ ~primaryCtaLoading
  /\ ~isRouteReady
  /\ LET refusal == OrderRefusal(swapAmount, takerAddress) IN
     IF refusal # <<>>
     THEN /\ orderStatus' = "error"
          /\ orderMessage' = refusal
          /\ event' = NoEvent
          /\ UNCHANGED orderCall
     ELSE /\ orderStatus' = "loading"
          /\ orderMessage' = <<"Requesting a protected route from Jupiter Ultra...">>
          /\ orderCall' = [t |-> "fetching", amount |-> swapAmount, taker |-> takerAddress]
          /\ event' = [to |-> "order", method |-> "GET",
                       url |-> OrderRequestUrl(swapAmount, takerAddress)]
  /\ UNCHANGED <<sdkLoaded, walletState, activeSurface, formVars, orderQuote,
                 pendingRequestId, pendingTransaction, quotedFor, orderReply,
                 executeVars, executed>>
  /\ UNCHANGED <<serverVars, parallelVars>>

\* The quote request settles: the rest of handleOrderSubmit.
OrderSettles ==
  /\ orderCall.t = "fetching"
  /\ \E r \in QuoteReplies :
       LET o == OrderPayload(r) IN
       /\ orderReply' = r
       /\ IF o.ok
          THEN /\ orderQuote' = o.v
               /\ pendingRequestId' = nextRequestId(o.v)
               /\ pendingTransaction' = unsignedTransaction(o.v)
               /\ executeStatus' = "idle"
               /\ executeMessage' =
                    IF unsignedTransaction(o.v) # <<>>
                    THEN <<"Unsigned transaction ready. Sign with MetaKeep to continue.">>
                    ELSE <<"Route ready. Inspect the JSON payload for serialized data.">>
               /\ orderStatus' = "success"
               /\ orderMessage' =
                    IF nextRequestId(o.v) # <<>>
                    THEN <<"Route secured. Request ID ">> \o nextRequestId(o.v)
                         \o <<" is ready for signing.">>
                    ELSE <<"Route secured. Inspect the JSON payload for serialized data.">>
               /\ quotedFor' = [t |-> "quote", amount |-> orderCall.amount,
                                taker |-> orderCall.taker]
               /\ executed' = {}
          ELSE /\ orderQuote' = IF QuoteWasStored(r) THEN r.json.v ELSE orderQuote
               /\ orderStatus' = "error"
               /\ orderMessage' = o.message
               /\ pendingRequestId' = <<>>
               /\ pendingTransaction' = <<>>
               /\ quotedFor' = NoQuote
               /\ UNCHANGED <<executeStatus, executeMessage, executed>>
  /\ orderCall' = NoCall
  /\ event' = NoEvent
  /\ UNCHANGED <<sdkLoaded, walletState, activeSurface, formVars, executeCall>>
  /\ UNCHANGED <<serverVars, parallelVars>>

\* The form is submitted with a route pending (the submit button is disabled
\* while the execution is loading): handlePrimaryCta calls
\* handleSignAndExecute, which runs up to `await sdk.signTransaction(...)`.
HandleSignAndExecute ==
  /\ activeSurface = "swap" /\ ~primaryCtaLoading
  /\ isRouteReady
  /\ LET refusal == ExecuteRefusal(pendingTransaction, pendingRequestId,
                                   walletState.address, sdkLoaded)
         transaction == PendingDeserialized(pendingTransaction)
     IN IF refusal # <<>>
        THEN /\ executeStatus' = "error"
             /\ executeMessage' = refusal
             /\ event' = NoEvent
             /\ UNCHANGED executeCall
        ELSE IF ~transaction.ok
        THEN /\ executeStatus' = "error"
             /\ executeMessage' = transaction.message
             /\ event' = NoEvent
             /\ UNCHANGED executeCall
        ELSE /\ executeStatus' = "loading"
             /\ executeMessage' = <<"Preparing MetaKeep signature...">>
             /\ executeCall' = [t |-> "signing", transaction |-> transaction.v,
                                requestId |-> pendingRequestId,
                                unsigned |-> pendingTransaction]
             /\ event' = [to |-> "sign", transaction |-> transaction.v]
  /\ UNCHANGED <<sdkLoaded, walletState, activeSurface, formVars, orderVars, executed>>
  /\ UNCHANGED <<serverVars, parallelVars>>

\* sdk.signTransaction settles (its result is not inspected): on a
\* rejection the catch clause, otherwise the POST to the execute proxy.
SignSettles ==
  /\ executeCall.t = "signing"
  /\ \E r \in SignReplies :
       IF r.t = "reject"
       THEN /\ executeStatus' = "error"
            /\ executeMessage' = r.message
            /\ executeCall' = NoCall
            /\ event' = NoEvent
       ELSE LET transaction == Signed(executeCall.transaction, r) IN
            /\ executeMessage' = <<"Broadcasting signed transaction via Jupiter...">>
            /\ executeCall' = [executeCall EXCEPT !.t = "posting", !.transaction = transaction]
            /\ event' = [to |-> "execute", method |-> "POST",
                         body |-> ExecuteRequestBody(transaction, executeCall.requestId)]
            /\ UNCHANGED executeStatus
  /\ UNCHANGED <<sdkLoaded, walletState, activeSurface, formVars, orderVars, executed>>
  /\ UNCHANGED <<serverVars, parallelVars>>

\* The execute request settles: the rest of handleSignAndExecute.
ExecuteSettles ==
  /\ executeCall.t = "posting"
  /\ \E r \in ExecuteReplies :
       LET o == ExecuteResult(r) IN
       /\ executeStatus' = IF o.ok THEN "success" ELSE "error"
       /\ executeMessage' = IF o.ok THEN o.v ELSE o.message
  /\ executed' = executed \cup {[requestId |-> executeCall.requestId,
                                 transaction |-> executeCall.unsigned]}
  /\ executeCall' = NoCall
  /\ event' = NoEvent
  /\ UNCHANGED <<sdkLoaded, walletState, activeSurface, formVars, orderVars>>
  /\ UNCHANGED <<serverVars, parallelVars>>

ClientNext ==
  \/ SelectSurface
  \/ ChangeAmount
  \/ ChangeTaker
  \/ HandleWalletRequest
  \/ GetWalletSettles
  \/ HandleOrderSubmit
  \/ OrderSettles
  \/ HandleSignAndExecute
  \/ SignSettles
  \/ ExecuteSettles

ClientSpec == ClientInit /\ [][ClientNext]_vars

ClientTypeOK ==
  /\ orderStatus \in {"idle", "loading", "success", "error"}
  /\ executeStatus \in {"idle", "loading", "success", "error"}
  /\ walletState.status \in {"idle", "loading", "ready", "error"}
  /\ orderCall.t = "fetching" <=> orderStatus = "loading"
  /\ executeCall.t \in {"signing", "posting"} <=> executeStatus = "loading"
  /\ swapAmount \in Amounts
  /\ takerAddress \in Takers \cup {<<"wallet-1">>}

\* ------------------------------------------------------------------------
\* Properties of the client
\* ------------------------------------------------------------------------
\* The flow is in the quoted state: both pending values are set, and they
\* are the ones a quote response with an OK status carried.
Quoted ==
  /\ isRouteReady
  /\ quotedFor.t = "quote"
  /\ orderReply.t = "response" /\ orderReply.ok /\ orderReply.json.ok
  /\ pendingRequestId = nextRequestId(orderReply.json.v)
  /\ pendingTransaction = unsignedTransaction(orderReply.json.v)

WalletSecured == Truthy(walletState.address)

\* handleSignAndExecute is entered outside the quoted state or without a
\* secured address: it sets the error status and calls nothing.
RefusesToExecute ==
  (HandleSignAndExecute /\ ~(Quoted /\ WalletSecured))
    => (executeStatus' = "error" /\ event'.to = "none" /\ executeCall' = executeCall)

\* C12 as stated: the sign request to the wallet SDK and the POST to
\* /api/jupiter/execute are made only in a state where the flow is quoted and
\* the wallet state holds a secured address; otherwise handleSignAndExecute
\* sets the execute status to error and makes no SDK or network call.
C12_ExecuteOnlyWhenQuotedAndSecured ==
  [][/\ event'.to \in {"sign", "execute"} => (Quoted /\ WalletSecured)
     /\ RefusesToExecute]_vars

\* The POST carries the pending requestId and the pending transaction.
PostsPendingValues ==
  /\ executeCall.requestId = pendingRequestId
  /\ executeCall.unsigned = pendingTransaction
  /\ event'.body = ExecuteRequestBody(executeCall'.transaction, pendingRequestId)
  /\ executeCall'.transaction.message = PendingDeserialized(pendingTransaction).v.message

\* C12, amended: the sign request is made only in a state where the flow is
\* quoted and the wallet state holds a secured address, and it hands the SDK
\* the pending transaction; the POST is made only when the sign request of
\* the same invocation has resolved, the flow still being quoted, and it
\* carries the pending values (the wallet state may have changed since the
\* sign request); otherwise handleSignAndExecute sets the execute status to
\* error and makes no SDK or network call.
C12_SignOnlyWhenQuotedAndSecured ==
  [][/\ event'.to = "sign"
          => /\ Quoted /\ WalletSecured /\ sdkLoaded
             /\ Ok(event'.transaction) = PendingDeserialized(pendingTransaction)
     /\ event'.to = "execute"
          => /\ executeCall.t = "signing" /\ Quoted
             /\ PostsPendingValues
     /\ RefusesToExecute]_vars

\* An execute request has been posted for a quoted route.
C12_Witness ==
  /\ event.to = "execute"
  /\ Quoted
  /\ executeCall.t = "posting"

\* C13: a quote request is issued only with a non-empty amount and a
\* non-empty taker, which it carries; handleOrderSubmit entered with either
\* empty sets the order status to error and issues no request; and the flow
\* is in the quoted state only through a quote response with an OK status
\* whose requestId and unsigned transaction are the pending values.
C13_QuoteNeedsAmountAndTaker ==
  [][/\ event'.to = "order"
          => /\ swapAmount # <<>> /\ takerAddress # <<>>
             /\ event'.url = OrderRequestUrl(swapAmount, takerAddress)
             /\ SearchParamsGet(SearchParams(URLsearch(event'.url)), "amount") = JStr(swapAmount)
             /\ SearchParamsGet(SearchParams(URLsearch(event'.url)), "taker") = JStr(takerAddress)
     /\ (HandleOrderSubmit /\ (swapAmount = <<>> \/ takerAddress = <<>>))
          => (orderStatus' = "error" /\ event'.to = "none" /\ orderCall' = orderCall)
     /\ isRouteReady' => Quoted'
     /\ (~isRouteReady /\ isRouteReady')
          => (orderCall.t = "fetching" /\ orderReply'.ok /\ orderStatus' = "success")]_vars

\* A quote response has just put the flow into the quoted state.
C13_Witness ==
  /\ Quoted
  /\ orderStatus = "success"
  /\ executeStatus = "idle"
  /\ quotedFor.amount # <<>> /\ quotedFor.taker # <<>>
  /\ executed = {}

\* The requestId of the execute request just posted, read off its body.
PostedRequestId == Member(JSONparse(event.body).v.m, "requestId").s

\* The message of the transaction just posted, read off its body.
PostedMessage ==
  PendingDeserialized(Member(JSONparse(event.body).v.m, "signedTransaction").s).v.message

\* C14: once the execute request for a requestId and transaction has settled
\* (status success or error), no further execute request is posted for the
\* same requestId and transaction unless a new quote was obtained in between.
C14_NoResubmission ==
  event.to = "execute"
    => \A e \in executed :
         ~(/\ e.requestId = PostedRequestId
           /\ PendingDeserialized(e.transaction).v.message = PostedMessage)

\* C18: when the execute request is posted, the pending requestId and
\* transaction it carries were returned by a quote that was requested with
\* the amount and the taker the form holds at that moment.
C18_ExecutesWhatTheFormShows ==
  event.to = "execute"
    => /\ quotedFor.t = "quote"
       /\ PostedRequestId = pendingRequestId
       /\ quotedFor.amount = swapAmount
       /\ quotedFor.taker = takerAddress

\* ========================================================================
\* C15: one response, at most one upstream request, exceptions answered 500
\* ========================================================================
\* The handler's own validation of the request lets it through.
OrderValidated ==
  IF req.impl = "dev"
  THEN \A i \in 1..Len(requiredParams) :
         Truthy(SearchParamsGet(SearchParams(NewURLWithBase(req.url).search),
                                requiredParams[i]))
  ELSE \A i \in 1..Len(requiredParams) : ~IsMissing(req.query[requiredParams[i]])

\* Method, configuration and validation all pass (the proxies only: the
\* signature endpoint calls no upstream).
Passes ==
  \/ OrderGetWithKey /\ OrderValidated
  \/ ExecutePostWithKey /\ ExecuteBodyValid

\* The exception the invocation has run into, if any: the request stream
\* failed, the body did not parse, the upstream call or the reading of its
\* body rejected.
Raised ==
  CASE stream = "error" -> Throw(<<"aborted">>)
    [] reply.t \in {"reject", "textreject"} -> Throw(reply.message)
    [] stream = "ended" /\ ~readBody(req.wire).ok -> readBody(req.wire)
    [] /\ ExecutePostWithKey /\ req.impl = "fn" /\ pc # "idle"
       /\ ~parseBody(req.body).ok -> parseBody(req.body)
    [] OTHER -> Ok(Undefined)

\* C15: an invocation has sent exactly one response when it is over and none
\* before; it issues at most one upstream request, none before method,
\* configuration and validation have passed, exactly one once they have and
\* none if they do not; an exception raised while the body is read or
\* parsed, by the upstream call or while the upstream body is read is
\* answered 500 with the JSON body {error: <the exception's message>}.
C15_OneResponseOneUpstream ==
  /\ res.sent = (IF Answered THEN 1 ELSE 0)
  /\ Len(upstream) <= 1
  /\ pc \in {"idle", "reading"} => upstream = <<>>
  /\ (Passes /\ BodyConsumed) => Len(upstream) = 1
  /\ (Serving /\ ~Passes) => upstream = <<>>
  /\ pc = "fetching" => Passes
  /\ (Answered /\ ~Raised.ok)
       => /\ res.status = 500
          /\ res.body = JSONstringify(ErrorPayload(Raised.message))
          /\ JSONparse(res.body) = Ok(JObj(ErrorPayload(Raised.message)))
          /\ res.headers["Content-Type"]
               \in {<<"application/json">>, <<"application/json; charset=utf-8">>}

\* An upstream call was made, failed, and the failure was answered.
C15_Witness ==
  /\ Answered
  /\ reply.t = "textreject"
  /\ Len(upstream) = 1
  /\ res.status = 500

\* ========================================================================
\* A request served alone, from arrival to response
\* ========================================================================
\* The handler of request r up to its first await.
Begin(r, key, sec) ==
  CASE r.endpoint = "sign" -> SignMoonPayBegin(r.method, sec, FreshResponse)
    [] r.endpoint = "order" /\ r.impl = "dev" ->
         OrderMiddleware(r.method, key, r.url, FreshResponse)
    [] r.endpoint = "order" /\ r.impl = "fn" ->
         OrderHandler(r.method, key, r.query, FreshResponse)
    [] r.endpoint = "execute" /\ r.impl = "dev" ->
         ExecuteMiddlewareBegin(r.method, key, FreshResponse)
    [] OTHER -> ExecuteHandler(r.method, key, r.body, FreshResponse)

\* The handler suspended in readBody goes on: with the text the stream
\* delivered, or with the stream's error.
AfterBody(r, key, sec, text, failed, response) ==
  IF failed
  THEN Outcome(IF r.endpoint = "sign" THEN SignMoonPayCatch(Throw(<<"aborted">>), response)
               ELSE ExecuteCatch(Throw(<<"aborted">>), response),
               "done", <<>>, {})
  ELSE IF r.endpoint = "sign"
  THEN Outcome(SignMoonPayResume(readBody(text), sec, response), "done", <<>>, {})
  ELSE ExecuteMiddlewareResume(readBody(text), key, response)

\* The handler suspended in fetch goes on with what the upstream call
\* settled with.
AfterFetch(r, rep, response) ==
  IF rep.t \in {"reject", "textreject"} THEN CatchOf(r, rep, response)
  ELSE IF r.impl = "dev" THEN forwardJupiterResponse(rep, response)
  ELSE forwardResponse(rep, response)

\* The response to request r and the upstream requests made for it, given
\* whether its stream fails and what its upstream call settles with (the
\* response so far, while that call is pending).
ServedAlone(r, key, sec, failed, rep) ==
  LET first == Begin(r, key, sec)
      second == IF first.pc = "reading"
                THEN AfterBody(r, key, sec, r.wire, failed, first.res)
                ELSE first
  IN [res |-> IF second.pc = "fetching" /\ rep.t # "none"
              THEN AfterFetch(r, rep, second.res)
              ELSE second.res,
      upstream |-> IF first.pc = "reading" THEN second.up ELSE first.up]

\* ------------------------------------------------------------------------
\* C17: the two deployments of the proxies
\* ------------------------------------------------------------------------
\* req.body as the function platform hands over a JSON request whose text
\* is the given one: nothing for an empty text, else the parsed value.
PlatformBody(text) == IF text = <<>> THEN Undefined ELSE JSONparse(text).v

\* The request being served by the dev server, as the standalone function
\* of the same endpoint receives it.
AsFunctionRequest ==
  [req EXCEPT !.impl = "fn",
              !.query = ReqQuery(ClientQuery),
              !.body = IF req.endpoint = "execute" THEN PlatformBody(req.wire)
                       ELSE Undefined]

\* A proxy request the dev server has answered and the function platform
\* can hand to the standalone handler.
ComparableRequest ==
  /\ Answered /\ stream # "error"
  /\ req.impl = "dev" /\ req.endpoint \in {"order", "execute"}
  /\ req.endpoint = "execute" => ExecuteValue.ok

\* C17: for the request the dev server has answered, the standalone handler
\* of the same endpoint, given the same upstream reply, sends the same
\* upstream request and answers with the same status and the same body.
C17_SameAsStandalone ==
  ComparableRequest
    => LET fn == ServedAlone(AsFunctionRequest, apiKey, secret, FALSE, reply) IN
       /\ fn.upstream = upstream
       /\ fn.res.status = res.status
       /\ fn.res.body = res.body

\* The claim's own example: the dev server and the standalone handler agree
\* on the answer to a POST on the execute proxy without a body.
EmptyExecuteSameAsStandalone ==
  (req.endpoint = "execute" /\ req.method = "POST" /\ req.wire = <<>> /\ Truthy(apiKey))
    => C17_SameAsStandalone

\* ========================================================================
\* Handler invocations in parallel
\* ========================================================================
\* The event loop runs one callback at a time; between the awaits of one
\* invocation the callbacks of the others may run.
MaxParallel == 2
Slots == 1..MaxParallel

\* A variant in which readBody keeps its text in one module-level variable.
SharedDataCell(i) == 1

\* The `data` variable of the readBody call of invocation i: declared inside
\* the promise executor, so each call has its own.
DataCell(i) == i

IdleSlot ==
  [req |-> NoRequest, pc |-> "idle", pending |-> <<>>, stream |-> "idle",
   res |-> FreshResponse, upstream |-> <<>>, reply |-> NoReply]

FullQuery ==
  Pair("inputMint", JStr(<<"1">>)) \o Pair("outputMint", JStr(<<"1">>))
  \o Pair("amount", JStr(<<"1">>)) \o Pair("taker", JStr(<<"1">>))
FullExecute ==
  Defined("signedTransaction", JStr(<<"tx">>)) \o Defined("requestId", JStr(<<"req-1">>))

\* The requests that arrive in parallel: one well-formed request per handler,
\* and an execute request whose body lacks a field.
ParallelRequests ==
  {[NoRequest EXCEPT !.endpoint = "sign", !.impl = "dev", !.method = "POST",
                     !.url = <<"/api/sign-moonpay">>,
                     !.wire = JSONstringify(Defined("url",
                                JStr(<<"https:", "//", "x.example", "/pay", "?", "a=1">>)))],
   [NoRequest EXCEPT !.endpoint = "order", !.impl = "dev", !.method = "GET",
                     !.url = OrderUrl(FullQuery)],
   [NoRequest EXCEPT !.endpoint = "order", !.impl = "fn", !.method = "GET",
                     !.url = OrderUrl(FullQuery), !.query = ReqQuery(FullQuery)],
   [NoRequest EXCEPT !.endpoint = "execute", !.impl = "dev", !.method = "POST",
                     !.url = <<"/api/jupiter/execute">>,
                     !.wire = JSONstringify(FullExecute)],
   [NoRequest EXCEPT !.endpoint = "execute", !.impl = "dev", !.method = "POST",
                     !.url = <<"/api/jupiter/execute">>,
                     !.wire = JSONstringify(Defined("requestId", JStr(<<"req-1">>)))],
   [NoRequest EXCEPT !.endpoint = "execute", !.impl = "fn", !.method = "POST",
                     !.url = <<"/api/jupiter/execute">>, !.body = JObj(FullExecute)]}

ParallelReplies ==
  {[t |-> "response", status |-> 200, ctype |-> JStr(<<"application/json">>),
    body |-> JSONstringify(<<[k |-> "requestId", v |-> JStr(<<"req-1">>)]>>)],
   [t |-> "reject", message |-> <<"fetch failed">>]}

\* The sizes of the next chunk: the socket delivers a body in one piece or
\* cut in the middle.
ChunkSizes(wire, rest) ==
  {Len(rest)} \cup (IF rest = wire /\ Len(wire) > 1 THEN {Len(wire) \div 2} ELSE {})

ParallelInit ==
  /\ apiKey = JStr(<<"jup-key">>)
  /\ secret = JStr(<<"sk-1">>)
  /\ NoInvocation
  /\ slots = [i \in Slots |-> IdleSlot]
  /\ cells = [i \in Slots |-> <<>>]
  /\ sdkLoaded = TRUE
  /\ Mounted

\* A request arrives for a free invocation; its handler runs up to its first
\* await (readBody starts with an empty text).
ParallelServe ==
  \E i \in Slots, r \in ParallelRequests :
    /\ slots[i].pc = "idle"
    /\ LET o == Begin(r, apiKey, secret) IN
       /\ slots' = [slots EXCEPT ![i] =
                      [req |-> r, pc |-> o.pc, pending |-> r.wire,
                       stream |-> IF o.pc = "reading" THEN "open" ELSE "idle",
                       res |-> o.res, upstream |-> o.up, reply |-> NoReply]]
       /\ cells' = IF o.pc = "reading" THEN [cells EXCEPT ![DataCell(i)] = <<>>]
                   ELSE cells
    /\ UNCHANGED <<serverVars, clientVars>>

\* req.on('data') of invocation i.
ParallelOnData ==
  \E i \in Slots :
    /\ slots[i].pc = "reading" /\ slots[i].pending # <<>>
    /\ \E n \in ChunkSizes(slots[i].req.wire, slots[i].pending) :
         /\ cells' = [cells EXCEPT ![DataCell(i)] = @ \o SubSeq(slots[i].pending, 1, n)]
         /\ slots' = [slots EXCEPT ![i].pending = SubSeq(@, n + 1, Len(@))]
    /\ UNCHANGED <<serverVars, clientVars>>

\* req.on('end') of invocation i: readBody resolves, its text is not referred
\* to any more, and the handler goes on with the parsed body.
ParallelOnEnd ==
  \E i \in Slots :
    /\ slots[i].pc = "reading" /\ slots[i].pending = <<>>
    /\ LET o == AfterBody(slots[i].req, apiKey, secret, cells[DataCell(i)], FALSE,
                          slots[i].res)
       IN slots' = [slots EXCEPT ![i].pc = o.pc, ![i].res = o.res,
                                 ![i].upstream = @ \o o.up, ![i].stream = "ended"]
    /\ cells' = [cells EXCEPT ![DataCell(i)] = <<>>]
    /\ UNCHANGED <<serverVars, clientVars>>

\* req.on('error') of invocation i.
ParallelOnError ==
  \E i \in Slots :
    /\ slots[i].pc = "reading"
    /\ LET o == AfterBody(slots[i].req, apiKey, secret, cells[DataCell(i)], TRUE,
                          slots[i].res)
       IN slots' = [slots EXCEPT ![i].pc = o.pc, ![i].res = o.res,
                                 ![i].upstream = @ \o o.up, ![i].stream = "error"]
    /\ cells' = [cells EXCEPT ![DataCell(i)] = <<>>]
    /\ UNCHANGED <<serverVars, clientVars>>

\* The upstream call of invocation i settles.
ParallelFetchSettles ==
  \E i \in Slots, rep \in ParallelReplies :
    /\ slots[i].pc = "fetching"
    /\ slots' = [slots EXCEPT ![i].pc = "done", ![i].reply = rep,
                              ![i].res = AfterFetch(slots[i].req, rep, @)]
    /\ UNCHANGED <<cells, serverVars, clientVars>>

\* Invocation i is over.
ParallelFinish ==
  \E i \in Slots :
    /\ slots[i].pc = "done"
    /\ slots' = [slots EXCEPT ![i] = IdleSlot]
    /\ UNCHANGED <<cells, serverVars, clientVars>>

ParallelNext ==
  \/ ParallelServe
  \/ ParallelOnData
  \/ ParallelOnEnd
  \/ ParallelOnError
  \/ ParallelFetchSettles
  \/ ParallelFinish

ParallelSpec == ParallelInit /\ [][ParallelNext]_vars

\* What invocation i would have answered and sent upstream had its request
\* been served alone.
AloneOf(i) ==
  ServedAlone(slots[i].req, apiKey, secret, slots[i].stream = "error", slots[i].reply)

\* C16: whatever other invocations run in between, each invocation's
\* response and upstream request are those of its request served alone, with
\* the same configuration and the same upstream reply; while it reads its
\* body, the text read so far is a prefix of its own body.
C16_AsServedAlone ==
  \A i \in Slots :
    /\ slots[i].pc \in {"fetching", "done"}
         => /\ slots[i].res = AloneOf(i).res
            /\ slots[i].upstream = AloneOf(i).upstream
    /\ slots[i].pc = "reading"
         => /\ cells[DataCell(i)] \o slots[i].pending = slots[i].req.wire
            /\ slots[i].upstream = <<>>
            /\ slots[i].res = FreshResponse

\* One invocation has its upstream call pending and has sent nothing, while
\* another is half way through its body.
C16_Witness ==
  \E i, j \in Slots :
    /\ i # j
    /\ slots[i].pc = "fetching" /\ slots[i].req.endpoint = "execute"
    /\ slots[j].pc = "reading" /\ slots[j].req.endpoint = "execute"
    /\ cells[DataCell(j)] # <<>> /\ slots[j].pending # <<>>

====
